---- MODULE Spec2Model ----
(***************************************************************************)
(* Model of backend/app/main.py: the /api/v1/analyze controller            *)
(* (analyze_f1_data), the table cleaner (clean_dataframe) and the          *)
(* constructor expander (normalize_constructor_data with                   *)
(* validate_constructor_data).                                             *)
(*                                                                         *)
(* Values.  Scalars are strings.  A Python dict is a sequence of entries   *)
(* (key order is kept), an entry being a leaf or a nested dict.  A table   *)
(* (pandas DataFrame) is its ordered column names and its ordered rows,    *)
(* each row carrying its index label and its cells.                        *)
(***************************************************************************)
EXTENDS Integers, Sequences, FiniteSets, TLC

VARIABLES pc, now, start_time, calls, pipeline_result, results, df,
          response, escaped

vars == <<pc, now, start_time, calls, pipeline_result, results, df,
          response, escaped>>

\* ------------------------------------------------------------------ bounds
MaxRows == 2

\* ------------------------------------------------------------------ values
NaN == "NaN"
CT == "ConstructorTable"
TARGET == "ferrari"
\* a list object standing in a plain column: not hashable
UNHASHABLE == "<list>"

Range(s) == {s[i] : i \in 1..Len(s)}

Leaf(k, v) == [key |-> k, leaf |-> TRUE, val |-> v, sub |-> <<>>]
Nested(k, d) == [key |-> k, leaf |-> FALSE, val |-> "", sub |-> d]
DictItem(d) == [isdict |-> TRUE, d |-> d]
ScalarItem == [isdict |-> FALSE, d |-> <<>>]

\* dict.get(k) on a dict whose value under k, if any, is a scalar
dict_get(d, k) ==
    IF \E i \in 1..Len(d) : d[i].key = k /\ d[i].leaf
    THEN LET i == CHOOSE j \in 1..Len(d) : d[j].key = k /\ d[j].leaf IN d[i].val
    ELSE "None"

\* ----------------------------------------------- constructor-list cells
\* type: the Python type of the cell; isdigit: str.isdigit(); json / lit: what
\* json.loads / ast.literal_eval do on the text ("list": a list, whose items
\* are in items; "other": a value that is no list; else the exception raised)
ListCell(items) ==
    [type |-> "list", isdigit |-> FALSE, json |-> "n/a", lit |-> "n/a", items |-> items]
StrCell(isdigit, json, lit, items) ==
    [type |-> "str", isdigit |-> isdigit, json |-> json, lit |-> lit, items |-> items]
OtherCell(type) ==
    [type |-> type, isdigit |-> FALSE, json |-> "n/a", lit |-> "n/a", items |-> <<>>]

FerrariA == <<Leaf("constructorId", "ferrari"), Leaf("points", "90")>>
FerrariB == <<Leaf("constructorId", "ferrari"), Leaf("points", "45"),
              Nested("stats", <<Leaf("wins", "3")>>)>>
McLaren == <<Leaf("constructorId", "mclaren"), Leaf("points", "50"),
             Leaf("podiums", "7")>>

ItemsFM == <<DictItem(FerrariA), DictItem(McLaren)>>
ItemsMF == <<ScalarItem, DictItem(McLaren), DictItem(FerrariB)>>
ItemsM == <<DictItem(McLaren)>>

CellListFM == ListCell(ItemsFM)
CellListMF == ListCell(ItemsMF)
CellListM == ListCell(ItemsM)
CellListEmpty == ListCell(<<>>)
\* '[{"constructorId": "ferrari", ...}, ...]'
CellJsonFM == StrCell(FALSE, "list", "list", ItemsFM)
\* "[{'constructorId': 'ferrari', ...}]": no JSON, a Python literal
CellLitMF == StrCell(FALSE, "JSONDecodeError", "list", ItemsMF)
\* '{"constructorId": "ferrari"}': JSON, but no list
CellJsonObj == StrCell(FALSE, "other", "other", <<>>)
\* 'n/a': neither JSON nor a literal
CellGarbage == StrCell(FALSE, "JSONDecodeError", "ValueError", <<>>)
\* '[1': neither JSON nor a literal
CellUnclosed == StrCell(FALSE, "JSONDecodeError", "SyntaxError", <<>>)
\* '{[1]: 2}': no JSON; literal_eval raises TypeError (unhashable key)
CellBadLit == StrCell(FALSE, "JSONDecodeError", "TypeError", <<>>)
\* '2021'
CellDigits == StrCell(TRUE, "other", "other", <<>>)
\* 2021
CellInt == OtherCell("int")
\* None
CellNone == OtherCell("NoneType")

\* ------------------------------------------------------------------ tables
Table(columns, rows) == [columns |-> columns, rows |-> rows]
Row(idx, cells) == [idx |-> idx, cells |-> cells]

\* boolean-mask indexing df[mask]: the rows of s whose keep flag is set, in order
SelectRows(s, keep) ==
    LET F[i \in 0..Len(s)] ==
            IF i = 0 THEN <<>>
            ELSE IF keep[i] THEN Append(F[i - 1], s[i]) ELSE F[i - 1]
    IN F[Len(s)]

\* df.drop(col, axis=1)
drop_column(t, col) ==
    LET cols == SelectSeq(t.columns, LAMBDA c : c # col)
    IN Table(cols,
             [i \in 1..Len(t.rows) |->
                Row(t.rows[i].idx, [c \in Range(cols) |-> t.rows[i].cells[c]])])

\* variant: only a table without columns counts as empty
empty_no_columns(t) == Len(t.columns) = 0

\* DataFrame.empty: some axis has length 0
empty(t) == Len(t.rows) = 0 \/ Len(t.columns) = 0

\* ------------------------------------------- validate_constructor_data
\* the value a text parses to: [exc, islist, items]
parse_text(data) ==
    IF data.json # "JSONDecodeError"
    THEN [exc |-> "none", islist |-> data.json = "list", items |-> data.items]
    ELSE IF data.lit \in {"ValueError", "SyntaxError"}
    THEN [exc |-> "caught", islist |-> FALSE, items |-> <<>>]
    ELSE IF data.lit \in {"list", "other"}
    THEN [exc |-> "none", islist |-> data.lit = "list", items |-> data.items]
    ELSE [exc |-> data.lit, islist |-> FALSE, items |-> <<>>]

\* result: [exc |-> "none" or the exception that leaves the function, val |-> list]
validate_constructor_data(data) ==
    LET parsed == IF data.type = "str" THEN parse_text(data)
                  ELSE [exc |-> "none", islist |-> data.type = "list",
                        items |-> data.items]
    IN IF parsed.exc = "caught" THEN [exc |-> "none", val |-> <<>>]
       ELSE IF parsed.exc # "none" THEN [exc |-> parsed.exc, val |-> <<>>]
       ELSE IF ~parsed.islist THEN [exc |-> "none", val |-> <<>>]
       ELSE [exc |-> "none", val |-> parsed.items]

\* ----------------------------------------------------- clean_dataframe
\* isinstance(x, (int, float)) or (isinstance(x, str) and x.isdigit())
is_numeric(x) == x.type \in {"int", "float"} \/ (x.type = "str" /\ x.isdigit)

remove_numeric(t) ==
    IF CT \in Range(t.columns)
    THEN Table(t.columns,
               SelectRows(t.rows,
                          [i \in 1..Len(t.rows) |-> ~is_numeric(t.rows[i].cells[CT])]))
    ELSE t

safe_columns(t) == SelectSeq(t.columns, LAMBDA col : col # CT)

RowKey(r, subset) == [c \in Range(subset) |-> r.cells[c]]

\* DataFrame.drop_duplicates(subset): keep the first row of each key
\* variant: keep="last"
drop_duplicates_keep_last(t, subset) ==
    Table(t.columns,
          SelectRows(t.rows,
                     [i \in 1..Len(t.rows) |->
                        \A j \in (i + 1)..Len(t.rows) :
                            RowKey(t.rows[j], subset) # RowKey(t.rows[i], subset)]))

drop_duplicates(t, subset) ==
    Table(t.columns,
          SelectRows(t.rows,
                     [i \in 1..Len(t.rows) |->
                        \A j \in 1..(i - 1) :
                            RowKey(t.rows[j], subset) # RowKey(t.rows[i], subset)]))

\* hashing a row key raises TypeError when a cell is not hashable
unhashable(t, subset) ==
    \E i \in 1..Len(t.rows) : \E c \in Range(subset) : t.rows[i].cells[c] = UNHASHABLE

\* elementwise ==: NaN equals nothing
PyEq(a, b) == a = b /\ a # NaN

\* variant: the season column removed without comparing it to year
reconcile_year_season_nofilter(t) ==
    IF "year" \in Range(t.columns) /\ "season" \in Range(t.columns)
    THEN drop_column(t, "season")
    ELSE t

reconcile_year_season(t) ==
    IF "year" \in Range(t.columns) /\ "season" \in Range(t.columns)
    THEN drop_column(
             Table(t.columns,
                   SelectRows(t.rows,
                              [i \in 1..Len(t.rows) |->
                                 PyEq(t.rows[i].cells["year"], t.rows[i].cells["season"])])),
             "season")
    ELSE t

\* result: [exc |-> "none" or the exception raised, df |-> the cleaned table]
clean_dataframe(t) ==
    LET t1 == remove_numeric(t)
        safe == safe_columns(t1)
    IN IF safe # <<>> /\ unhashable(t1, safe)
       THEN [exc |-> "TypeError", df |-> t]
       ELSE [exc |-> "none",
             df |-> reconcile_year_season(
                        IF safe # <<>> THEN drop_duplicates(t1, safe) ELSE t1)]

\* ------------------------------------------ normalize_constructor_data
\* next((item for item in x if isinstance(item, dict) and
\*       item.get('constructorId') == 'ferrari'), {})
select_constructor(x) ==
    LET hits == {i \in 1..Len(x) : x[i].isdict /\ dict_get(x[i].d, "constructorId") = TARGET}
    IN IF hits = {} THEN <<>>
       ELSE x[CHOOSE i \in hits : \A j \in hits : i <= j].d

Field(k, v) == [key |-> k, val |-> v]

\* a nested dict flattened depth-first, keys joined by "."
RECURSIVE flatten_nested(_, _)
flatten_nested(d, prefix) ==
    IF d = <<>> THEN <<>>
    ELSE LET e == Head(d)
             k == prefix \o "." \o e.key
         IN (IF e.leaf THEN <<Field(k, e.val)>> ELSE flatten_nested(e.sub, k))
            \o flatten_nested(Tail(d), prefix)

RECURSIVE flatten_top(_)
flatten_top(d) ==
    IF d = <<>> THEN <<>>
    ELSE LET e == Head(d)
         IN (IF e.leaf THEN <<>> ELSE flatten_nested(e.sub, e.key)) \o flatten_top(Tail(d))

\* one record of pd.json_normalize: the top-level scalars in place, then the
\* nested dicts flattened
flatten(d) ==
    LET leaves == SelectSeq(d, LAMBDA e : e.leaf)
    IN [i \in 1..Len(leaves) |-> Field(leaves[i].key, leaves[i].val)] \o flatten_top(d)

\* the elements of s in order of first appearance
Unique(s) ==
    SelectRows(s, [i \in 1..Len(s) |-> \A j \in 1..(i - 1) : s[j] # s[i]])

RECURSIVE Keys(_)
Keys(ds) ==
    IF ds = <<>> THEN <<>>
    ELSE [i \in 1..Len(Head(ds)) |-> Head(ds)[i].key] \o Keys(Tail(ds))

field_get(f, k) ==
    IF \E i \in 1..Len(f) : f[i].key = k
    THEN f[CHOOSE i \in 1..Len(f) : f[i].key = k].val
    ELSE NaN

\* pd.json_normalize(list of dicts): a table with a fresh index 0..n-1
json_normalize(data) ==
    LET flat == [i \in 1..Len(data) |-> flatten(data[i])]
        cols == Unique(Keys(flat))
    IN Table(cols,
             [i \in 1..Len(data) |->
                Row(i - 1, [c \in Range(cols) |-> field_get(flat[i], c)])])

Index(t) == [i \in 1..Len(t.rows) |-> t.rows[i].idx]

has_duplicates(s) == \E i, j \in 1..Len(s) : i < j /\ s[i] = s[j]

cell_at(t, label, c) ==
    IF \E i \in 1..Len(t.rows) : t.rows[i].idx = label
    THEN t.rows[CHOOSE i \in 1..Len(t.rows) : t.rows[i].idx = label].cells[c]
    ELSE NaN

\* the two indexes are identical: the rows pair up in place
concat_by_position(a, b) ==
    [exc |-> "none",
     df |-> Table(a.columns \o b.columns,
                  [i \in 1..Len(a.rows) |->
                     Row(a.rows[i].idx,
                         [c \in Range(a.columns \o b.columns) |->
                            IF c \in Range(a.columns) THEN a.rows[i].cells[c]
                            ELSE b.rows[i].cells[c]])])]

\* pd.concat([a, b], axis=1): an outer join of the rows on their index labels.
\* The two tables' column names are disjoint.
\* result: [exc |-> "none" or the exception raised, df |-> the joined table]
concat(a, b) ==
    IF Index(a) = Index(b)
    THEN concat_by_position(a, b)
    ELSE IF has_duplicates(Index(a)) \/ has_duplicates(Index(b))
    THEN [exc |-> "InvalidIndexError", df |-> a]
    ELSE LET labels == Unique(Index(a) \o Index(b))
             cols == a.columns \o b.columns
         IN [exc |-> "none",
             df |-> Table(cols,
                          [i \in 1..Len(labels) |->
                             Row(labels[i],
                                 [c \in Range(cols) |->
                                    IF c \in Range(a.columns)
                                    THEN cell_at(a, labels[i], c)
                                    ELSE cell_at(b, labels[i], c)])])]

\* "not df.empty and df['constructor_data'].iloc[0]"
should_expand(constructor_data) ==
    Len(constructor_data) > 0 /\ constructor_data[1] # <<>>

\* the table returned; no exception leaves the function
normalize_constructor_data(t) ==
    IF CT \notin Range(t.columns) THEN t
    ELSE LET v == [i \in 1..Len(t.rows) |-> validate_constructor_data(t.rows[i].cells[CT])]
         IN IF \E i \in 1..Len(t.rows) : v[i].exc # "none"
            THEN t
            ELSE LET constructor_data ==
                         [i \in 1..Len(t.rows) |-> select_constructor(v[i].val)]
                     dropped == drop_column(t, CT)
                 IN IF should_expand(constructor_data)
                    THEN LET joined == concat(dropped, json_normalize(constructor_data))
                         IN IF joined.exc # "none" THEN dropped ELSE joined.df
                    ELSE dropped

\* ------------------------------------------------------ analyze_f1_data
\* A message is the sequence of its text fragments; an f-string joins them.
Contains(msg, text) == text \in Range(msg)

\* str(HTTPException(status_code, detail)): "<status_code>: <detail>"
HTTPException_str(status_code, detail) == <<status_code, ": ">> \o detail

Call(stage, outcome) == [stage |-> stage, outcome |-> outcome]
Stages(cs) == [i \in 1..Len(cs) |-> cs[i].stage]

StageOrder == <<"interpret", "adapt_query", "fetch", "adapt_result", "coerce",
                "clean_dataframe", "normalize_constructor_data", "generate_code",
                "execute_code", "assemble">>

\* variant: the Expander left out
next_stage_skip_expander(stage) ==
    IF stage = "clean_dataframe" THEN "generate_code"
    ELSE LET i == CHOOSE j \in 1..Len(StageOrder) : StageOrder[j] = stage
         IN StageOrder[i + 1]

\* the stage the handler's text puts after stage
next_stage(stage) ==
    LET i == CHOOSE j \in 1..Len(StageOrder) : StageOrder[j] = stage
    IN StageOrder[i + 1]

\* what a collaborator's call can do: return, signal an error (HTTPException),
\* or fail with any other exception
Outcomes == {"ok", "HTTPException", "Exception"}

\* variant: only the "except HTTPException" clause
Respond_http_only(kind, detail) ==
    /\ pc' = "done"
    /\ IF kind = "HTTPException"
       THEN /\ response' = [success |-> FALSE, error |-> "Analysis failed",
                            details |-> detail,
                            processing_time |-> now' - start_time]
            /\ escaped' = FALSE
       ELSE /\ response' = response
            /\ escaped' = TRUE

\* the two except clauses of the handler; kind is the exception's class
Respond(kind, detail) ==
    /\ pc' = "done"
    /\ response' = [success |-> FALSE, error |-> "Analysis failed",
                    details |-> detail,
                    processing_time |-> now' - start_time]
    /\ escaped' = FALSE

\* a collaborator stage: its call returns, or raises
Collaborator(stage) ==
    \E outcome \in Outcomes :
        /\ calls' = Append(calls, Call(stage, IF outcome = "ok" THEN "ok" ELSE "raised"))
        /\ IF outcome = "ok"
           THEN /\ pc' = next_stage(stage)
                /\ UNCHANGED <<response, escaped>>
           ELSE Respond(outcome, <<stage, " failed">>)

NoPipelineResult ==
    [returned |-> FALSE, success |-> FALSE, data |-> "None", error |-> "None",
     payload |-> [shape |-> "none", columns |-> <<>>, index |-> <<>>, records |-> <<>>]]

Start ==
    /\ pc = "start"
    /\ start_time' = now
    /\ pc' = "interpret"
    /\ UNCHANGED <<now, calls, pipeline_result, results, df, response, escaped>>

\* Step 1: await processor.process_query(request.query)
Interpret ==
    /\ pc = "interpret"
    /\ now' \in {now, now + 1}
    /\ Collaborator("interpret")
    /\ UNCHANGED <<start_time, pipeline_result, results, df>>

\* Step 2: await query_adapter.adapt(query_result)
AdaptQuery ==
    /\ pc = "adapt_query"
    /\ now' = now
    /\ Collaborator("adapt_query")
    /\ UNCHANGED <<start_time, pipeline_result, results, df>>

\* Step 3: to_data_requirements(), await pipeline.process(requirements)
Fetch ==
    /\ pc = "fetch"
    /\ now' \in {now, now + 1}
    /\ Collaborator("fetch")
    /\ UNCHANGED <<start_time, pipeline_result, results, df>>

\* variant: the success flag alone
pipeline_failed_flag_only(pr) == ~pr.success

\* "not pipeline_result.success or pipeline_result.data is None"
pipeline_failed(pr) == ~pr.success \/ pr.data = "None"

\* "pipeline_result.error or 'No data returned'"
error_or_default(error) == IF error \in {"None", ""} THEN "No data returned" ELSE error

\* the DataFrame built from results; a list stands for a list of records that
\* share their keys (string keys, so that the json.dumps of the debug line
\* cannot fail), a dict with no keys for the default of data.get('results', {});
\* the columns of a list are its records' keys, none for an empty list
\* result: [exc |-> "none" or the exception raised, df |-> the table]
\* variant: no branch for a dict
coerce_dict_as_list(payload) ==
    IF payload.shape = "DataFrame"
    THEN [exc |-> "none",
          df |-> Table(payload.columns,
                       [i \in 1..Len(payload.records) |->
                          Row(payload.index[i], payload.records[i])])]
    ELSE IF payload.shape = "list"
    THEN [exc |-> "none",
          df |-> Table(IF payload.records = <<>> THEN <<>> ELSE payload.columns,
                       [i \in 1..Len(payload.records) |-> Row(i - 1, payload.records[i])])]
    ELSE [exc |-> "ValueError", df |-> Table(<<>>, <<>>)]

coerce(payload) ==
    IF payload.shape = "DataFrame"
    THEN [exc |-> "none",
          df |-> Table(payload.columns,
                       [i \in 1..Len(payload.records) |->
                          Row(payload.index[i], payload.records[i])])]
    ELSE IF payload.shape = "dict"
    THEN [exc |-> "none", df |-> Table(payload.columns, <<Row(0, payload.records[1])>>)]
    ELSE IF payload.shape = "list"
    THEN [exc |-> "none",
          df |-> Table(IF payload.records = <<>> THEN <<>> ELSE payload.columns,
                       [i \in 1..Len(payload.records) |-> Row(i - 1, payload.records[i])])]
    ELSE [exc |-> "ValueError", df |-> Table(<<>>, <<>>)]

\* ------------------------------------------------------------- inputs
Record(columns, ct, year, season) ==
    [c \in Range(columns) |-> IF c = CT THEN ct ELSE IF c = "year" THEN year ELSE season]

\* the records over columns whose constructor-list cell is one of cells
Records(columns, cells, years, seasons) ==
    {Record(columns, ct, y, s) :
        ct \in (IF CT \in Range(columns) THEN cells ELSE {CellNone}),
        y \in (IF "year" \in Range(columns) THEN years ELSE {NaN}),
        s \in (IF "season" \in Range(columns) THEN seasons ELSE {NaN})}

RecordSeqs(recs) == UNION {[1..n -> recs] : n \in 0..MaxRows}

PayloadCells == {CellListFM, CellLitMF, CellListM, CellBadLit, CellInt}
PayloadColumns == {<<"year", CT>>, <<"year">>}
PayloadRecords(columns) == Records(columns, PayloadCells, {"2021", UNHASHABLE}, {NaN})

Payloads ==
    UNION {
        {[shape |-> "list", columns |-> columns, index |-> <<>>, records |-> rs] :
            rs \in RecordSeqs(PayloadRecords(columns))}
        \cup {[shape |-> "DataFrame", columns |-> columns,
               index |-> [i \in 1..Len(rs) |-> i - 1], records |-> rs] :
                rs \in RecordSeqs(PayloadRecords(columns))}
        \cup {[shape |-> "dict", columns |-> columns, index |-> <<>>, records |-> <<r>>] :
                r \in PayloadRecords(columns)}
        : columns \in PayloadColumns}
    \cup {[shape |-> "dict", columns |-> <<>>, index |-> <<>>, records |-> << <<>> >>],
          [shape |-> "int", columns |-> <<>>, index |-> <<>>, records |-> <<>>],
          [shape |-> "str", columns |-> <<>>, index |-> <<>>, records |-> <<>>]}

SamplePayload ==
    [shape |-> "dict", columns |-> <<"year">>, index |-> <<>>,
     records |-> <<Record(<<"year">>, CellNone, "2021", NaN)>>]

\* what result_adapter.adapt_pipeline_result can return
PipelineResults ==
    {[returned |-> TRUE, success |-> TRUE, data |-> "dict", error |-> "None",
      payload |-> p] : p \in Payloads}
    \cup {[returned |-> TRUE, success |-> s, data |-> d, error |-> e,
           payload |-> IF d = "None" THEN NoPipelineResult.payload ELSE SamplePayload] :
            s \in BOOLEAN, d \in {"None", "dict"}, e \in {"None", "", "upstream timeout"}}

\* Step 4: await result_adapter.adapt_pipeline_result(...), then the check of
\* its success flag and data
AdaptResult ==
    /\ pc = "adapt_result"
    /\ now' = now
    /\ \E outcome \in Outcomes :
        IF outcome # "ok"
        THEN /\ calls' = Append(calls, Call("adapt_result", "raised"))
             /\ Respond(outcome, <<"adapt_result", " failed">>)
             /\ UNCHANGED pipeline_result
        ELSE \E pr \in PipelineResults :
             /\ pipeline_result' = pr
             /\ calls' = Append(calls, Call("adapt_result", "ok"))
             /\ IF pipeline_failed(pr)
                THEN Respond("HTTPException",
                             <<"Pipeline processing failed: ", error_or_default(pr.error)>>)
                ELSE /\ pc' = next_stage("adapt_result")
                     /\ UNCHANGED <<response, escaped>>
    /\ UNCHANGED <<start_time, results, df>>

\* Step 5, first part: results = pipeline_result.data.get('results', {}) and
\* the DataFrame built from it
Coerce ==
    /\ pc = "coerce"
    /\ now' = now
    /\ IF pipeline_result.data = "None"
       THEN /\ calls' = Append(calls, Call("coerce", "raised"))
            /\ Respond("Exception", <<"'NoneType' object has no attribute 'get'">>)
            /\ UNCHANGED <<results, df>>
       ELSE LET r == coerce(pipeline_result.payload)
            IN /\ results' = pipeline_result.payload
               /\ IF r.exc # "none"
                  THEN /\ calls' = Append(calls, Call("coerce", "raised"))
                       /\ Respond("HTTPException",
                                  <<"Failed to process data: ",
                                    "Cannot process results of type: ",
                                    pipeline_result.payload.shape>>)
                       /\ UNCHANGED df
                  ELSE /\ calls' = Append(calls, Call("coerce", "ok"))
                       /\ df' = r.df
                       /\ pc' = next_stage("coerce")
                       /\ UNCHANGED <<response, escaped>>
    /\ UNCHANGED <<start_time, pipeline_result>>

\* df = clean_dataframe(df)
Clean ==
    /\ pc = "clean_dataframe"
    /\ now' = now
    /\ LET r == clean_dataframe(df)
       IN IF r.exc # "none"
          THEN /\ calls' = Append(calls, Call("clean_dataframe", "raised"))
               /\ Respond("HTTPException",
                          <<"Failed to process data: ", "unhashable type: 'list'">>)
               /\ UNCHANGED df
          ELSE /\ calls' = Append(calls, Call("clean_dataframe", "ok"))
               /\ df' = r.df
               /\ pc' = next_stage("clean_dataframe")
               /\ UNCHANGED <<response, escaped>>
    /\ UNCHANGED <<start_time, pipeline_result, results>>

\* df = normalize_constructor_data(df), then "if df.empty: raise HTTPException"
Normalize ==
    /\ pc = "normalize_constructor_data"
    /\ now' = now
    /\ calls' = Append(calls, Call("normalize_constructor_data", "ok"))
    /\ LET r == normalize_constructor_data(df)
       IN /\ df' = r
          /\ IF empty(r)
             THEN Respond("HTTPException",
                          <<"Failed to process data: ">>
                          \o HTTPException_str("400",
                                               <<"No data available after processing">>))
             ELSE /\ pc' = next_stage("normalize_constructor_data")
                  /\ UNCHANGED <<response, escaped>>
    /\ UNCHANGED <<start_time, pipeline_result, results>>

\* code = generate_code(df, request.query)
Generate ==
    /\ pc = "generate_code"
    /\ now' = now
    /\ Collaborator("generate_code")
    /\ UNCHANGED <<start_time, pipeline_result, results, df>>

\* success, result, executed_code = execute_code_safely(code, df)
Execute ==
    /\ pc = "execute_code"
    /\ now' \in {now, now + 1}
    /\ \E outcome \in Outcomes \cup {"unsuccessful"} :
        /\ calls' = Append(calls, Call("execute_code",
                                       IF outcome = "ok" THEN "ok" ELSE "raised"))
        /\ IF outcome = "ok"
           THEN /\ pc' = next_stage("execute_code")
                /\ UNCHANGED <<response, escaped>>
           ELSE IF outcome = "unsuccessful"
           THEN Respond("HTTPException", <<"Code execution failed: ", "result">>)
           ELSE Respond(outcome, <<"execute_code", " failed">>)
    /\ UNCHANGED <<start_time, pipeline_result, results, df>>

\* the success response; reading query_result.trace or
\* pipeline_result.metadata can fail
Assemble ==
    /\ pc = "assemble"
    /\ now' = now
    /\ \E outcome \in {"ok", "Exception"} :
        /\ calls' = Append(calls, Call("assemble", IF outcome = "ok" THEN "ok" ELSE "raised"))
        /\ IF outcome = "ok"
           THEN /\ pc' = "done"
                /\ response' = [success |-> TRUE, data |-> "result",
                                executed_code |-> "executed_code",
                                query_trace |-> "trace",
                                processing_time |-> now' - start_time,
                                metadata |-> "metadata"]
                /\ escaped' = FALSE
           ELSE Respond(outcome, <<"object has no attribute">>)
    /\ UNCHANGED <<start_time, pipeline_result, results, df>>

Init ==
    /\ pc = "start"
    /\ now \in {1, 2}
    /\ start_time = 0
    /\ calls = <<>>
    /\ pipeline_result = NoPipelineResult
    /\ results = NoPipelineResult.payload
    /\ df = Table(<<>>, <<>>)
    /\ response = [success |-> FALSE]
    /\ escaped = FALSE

Next ==
    \/ Start
    \/ Interpret
    \/ AdaptQuery
    \/ Fetch
    \/ AdaptResult
    \/ Coerce
    \/ Clean
    \/ Normalize
    \/ Generate
    \/ Execute
    \/ Assemble

Spec == Init /\ [][Next]_vars

\* ------------------------------------------- the two table functions alone
AllCells == {CellListFM, CellListMF, CellListM, CellListEmpty, CellJsonFM, CellLitMF,
             CellJsonObj, CellGarbage, CellUnclosed, CellBadLit, CellDigits, CellInt,
             CellNone}
MainCells == AllCells \ {CellListEmpty, CellJsonObj, CellUnclosed}
SeasonCells == {CellListFM, CellLitMF, CellGarbage, CellInt}
Years == {"2021", "2022"}

TableRecordSeqs ==
    [columns : {<<CT>>}, records : RecordSeqs(Records(<<CT>>, AllCells, Years, Years))]
    \cup [columns : {<<"year", CT>>},
          records : RecordSeqs(Records(<<"year", CT>>, MainCells, Years, Years))]
    \cup [columns : {<<"year", "season">>},
          records : RecordSeqs(Records(<<"year", "season">>, {CellNone}, Years, Years))]
    \cup [columns : {<<"year", CT, "season">>},
          records : RecordSeqs(Records(<<"year", CT, "season">>, SeasonCells, Years, Years))]

\* tables with the default index 0..n-1, and tables whose index repeats a label
Tables ==
    {Table(t.columns, [i \in 1..Len(t.records) |-> Row(i - 1, t.records[i])]) :
        t \in TableRecordSeqs}
    \cup {Table(t.columns, [i \in 1..Len(t.records) |-> Row(0, t.records[i])]) :
            t \in TableRecordSeqs}

TableInit ==
    /\ pc = "table"
    /\ df \in Tables
    /\ results = df
    /\ calls = <<>>
    /\ now = 0
    /\ start_time = 0
    /\ pipeline_result = NoPipelineResult
    /\ response = [success |-> FALSE]
    /\ escaped = FALSE

\* df = clean_dataframe(df), on the input and on a cleaned table
ApplyClean ==
    /\ pc = "table"
    /\ Stages(calls) \in {<<>>, <<"clean_dataframe">>}
    /\ clean_dataframe(df).exc = "none"
    /\ df' = clean_dataframe(df).df
    /\ calls' = Append(calls, Call("clean_dataframe", "ok"))
    /\ UNCHANGED <<pc, now, start_time, pipeline_result, results, response, escaped>>

\* df = normalize_constructor_data(df), on the input and on a cleaned table
ApplyNormalize ==
    /\ pc = "table"
    /\ Stages(calls) \in {<<>>, <<"clean_dataframe">>}
    /\ df' = normalize_constructor_data(df)
    /\ calls' = Append(calls, Call("normalize_constructor_data", "ok"))
    /\ UNCHANGED <<pc, now, start_time, pipeline_result, results, response, escaped>>

TableNext == ApplyClean \/ ApplyNormalize

TableSpec == TableInit /\ [][TableNext]_vars

\* ===================================================== properties, Spec
Ran(stage) == \E i \in 1..Len(calls) : calls[i].stage = stage

FailureShape(r) ==
    /\ DOMAIN r = {"success", "error", "details", "processing_time"}
    /\ r.success = FALSE
    /\ r.error = "Analysis failed"
    /\ Len(r.details) > 0
    /\ r.processing_time = now - start_time
    /\ r.processing_time >= 0

SuccessShape(r) ==
    /\ DOMAIN r = {"success", "data", "executed_code", "query_trace",
                   "processing_time", "metadata"}
    /\ r.success = TRUE
    /\ r.processing_time = now - start_time

TableStages == {"coerce", "clean_dataframe", "normalize_constructor_data",
                "generate_code", "execute_code"}

\* C1: whatever each stage does (return, signal an error, raise), the request
\* ends with a response and no exception leaves the handler: the response has
\* the success shape, or the failure shape with error "Analysis failed", a
\* details message and the time elapsed since the request's start.
C1_NoFaultEscapes ==
    /\ ~escaped
    /\ pc = "done" => (SuccessShape(response) \/ FailureShape(response))
    /\ pc # "done" => (pc = "start" \/ pc \in Range(StageOrder))

\* an unexpected exception of execute_code, turned into the failure response
C1_Witness ==
    /\ pc = "done"
    /\ Len(calls) = 9
    /\ calls[9] = Call("execute_code", "raised")
    /\ FailureShape(response)
    /\ response.details = <<"execute_code", " failed">>
    /\ response.processing_time > 0

\* C2: once the result adapter has returned a result with success false, or
\* with no data whatever the flag, the response is the failure response with
\* error "Analysis failed" and details holding the adapter's error text, and
\* coercion, Normalizer, Expander, generate_code and execute_code have not
\* been invoked.
C2_PipelineFailureStops ==
    (pipeline_result.returned
        /\ (~pipeline_result.success \/ pipeline_result.data = "None"))
    => /\ pc = "done"
       /\ FailureShape(response)
       /\ pipeline_result.error \notin {"None", ""}
            => Contains(response.details, pipeline_result.error)
       /\ \A i \in 1..Len(calls) : calls[i].stage \notin TableStages

\* success flag set, but no data
C2_Witness ==
    /\ pc = "done"
    /\ pipeline_result.returned
    /\ pipeline_result.success
    /\ pipeline_result.data = "None"
    /\ pipeline_result.error = "upstream timeout"
    /\ Contains(response.details, "upstream timeout")

\* C3: the stages of a request run in the fixed order, each at most once, a
\* stage only after every earlier one has completed successfully; a request
\* that reaches generate_code has run Normalizer and Expander exactly once
\* each, before it; a success response is made only after all stages.
C3_StageOrder ==
    /\ Len(calls) <= Len(StageOrder)
    /\ \A i \in 1..Len(calls) : calls[i].stage = StageOrder[i]
    /\ \A i \in 1..(Len(calls) - 1) : calls[i].outcome = "ok"
    /\ pc \notin {"start", "done"}
         => /\ pc = StageOrder[Len(calls) + 1]
            /\ \A i \in 1..Len(calls) : calls[i].outcome = "ok"
    /\ Ran("generate_code")
         => \A f \in {"clean_dataframe", "normalize_constructor_data"} :
              /\ Cardinality({i \in 1..Len(calls) : calls[i].stage = f}) = 1
              /\ \A i, j \in 1..Len(calls) :
                    (calls[i].stage = f /\ calls[j].stage = "generate_code") => i < j
    /\ (pc = "done" /\ response.success) => Stages(calls) = StageOrder

\* a request that ran every stage
C3_Witness ==
    /\ pc = "done"
    /\ response.success
    /\ Stages(calls) = StageOrder
    /\ Len(results.records) = 2

\* C4: when Normalizer and Expander have run and the table has no rows, the
\* request has stopped with the failure response, whose details report that
\* no data is available, and generate_code and execute_code were not invoked.
C4_EmptyResultStops ==
    (Ran("normalize_constructor_data") /\ Len(df.rows) = 0)
    => /\ pc = "done"
       /\ FailureShape(response)
       /\ Contains(response.details, "No data available after processing")
       /\ ~Ran("generate_code")
       /\ ~Ran("execute_code")

\* the Normalizer removed every row of a payload that had rows
C4_Witness ==
    /\ Ran("normalize_constructor_data")
    /\ Len(df.rows) = 0
    /\ Len(df.columns) > 0
    /\ Len(results.records) = 2
    /\ pc = "done"

\* C5: a payload that is no table, record or list of records ends the request
\* at coercion with the failure response, whose details name the shape; no
\* table is built and no later stage runs.  A table is taken as it is, a
\* record becomes a one-row table, a list of records a table with one row per
\* record.
C5_Coercion ==
    Ran("coerce")
    => IF results.shape \notin {"DataFrame", "dict", "list"}
       THEN /\ pc = "done"
            /\ FailureShape(response)
            /\ Contains(response.details, "Cannot process results of type: ")
            /\ Contains(response.details, results.shape)
            /\ df = Table(<<>>, <<>>)
            /\ Stages(calls) = SubSeq(StageOrder, 1, 5)
       ELSE /\ calls[5] = Call("coerce", "ok")
            /\ pc = "clean_dataframe"
                 => /\ df.columns = (IF results.shape = "list" /\ results.records = <<>>
                                      THEN <<>> ELSE results.columns)
                    /\ Len(df.rows) = Len(results.records)
                    /\ \A i \in 1..Len(df.rows) : df.rows[i].cells = results.records[i]
                    /\ results.shape = "dict" => Len(df.rows) = 1
                    /\ results.shape = "DataFrame"
                         => \A i \in 1..Len(df.rows) : df.rows[i].idx = results.index[i]

\* a bare scalar payload
C5_Witness ==
    /\ pc = "done"
    /\ Ran("coerce")
    /\ results.shape = "int"
    /\ Contains(response.details, "int")

\* ================================================ properties, TableSpec
LastCall == calls[Len(calls)].stage

\* the table the last call was applied to
Prev ==
    IF Len(calls) = 2 /\ calls[1].stage = "clean_dataframe"
    THEN clean_dataframe(results).df
    ELSE results

OtherColumns(t) == {c \in Range(t.columns) : c # CT}

NoDuplicateRows(t) ==
    \A i, j \in 1..Len(t.rows) :
        i < j => \E c \in OtherColumns(t) : t.rows[i].cells[c] # t.rows[j].cells[c]

\* the input rows the Normalizer's first step keeps
Candidates(t) ==
    {i \in 1..Len(t.rows) :
        CT \in Range(t.columns)
        => LET x == t.rows[i].cells[CT]
           IN ~(x.type \in {"int", "float"} \/ (x.type = "str" /\ x.isdigit))}

FirstOccurrences(t) ==
    {i \in Candidates(t) :
        \A j \in Candidates(t) :
            j < i => \E c \in OtherColumns(t) : t.rows[j].cells[c] # t.rows[i].cells[c]}

Project(r, columns) == Row(r.idx, [c \in Range(columns) |-> r.cells[c]])

\* out's rows are rows of t, each a first occurrence, in t's order
SurvivorsAreFirst(t, out) ==
    \E K \in SUBSET FirstOccurrences(t) :
        /\ Len(out.rows) = Cardinality(K)
        /\ \A n \in 1..Len(out.rows) :
             \E i \in K :
                /\ Cardinality({k \in K : k <= i}) = n
                /\ out.rows[n] = Project(t.rows[i], out.columns)

\* C7 as stated: for every input table, no two rows of the Normalizer's output
\* are equal on all output columns other than the constructor-list column,
\* and the survivors are first occurrences in their original order.
C7_AsStated ==
    Stages(calls) = <<"clean_dataframe">>
    => (NoDuplicateRows(df) /\ SurvivorsAreFirst(results, df))

\* C7: for every input table that has a column other than the
\* constructor-list column, no two rows of the Normalizer's output are equal
\* on all output columns other than the constructor-list column (also when
\* the season column was removed), and the survivors are the first
\* occurrences of their rows, in their original order.
C7_NoDuplicates ==
    (Stages(calls) = <<"clean_dataframe">> /\ OtherColumns(results) # {})
    => (NoDuplicateRows(df) /\ SurvivorsAreFirst(results, df))

\* duplicates that differ in season only, the season column then removed
C7_Witness ==
    /\ Stages(calls) = <<"clean_dataframe">>
    /\ Range(results.columns) = {"year", "season", CT}
    /\ Len(results.rows) = 2
    /\ results.rows[1].cells["year"] = results.rows[2].cells["year"]
    /\ results.rows[1].cells["season"] # results.rows[2].cells["season"]
    /\ ~is_numeric(results.rows[1].cells[CT])
    /\ ~is_numeric(results.rows[2].cells[CT])
    /\ Len(df.rows) = 1

\* C8: whatever the constructor-list cells hold, the table the Expander
\* returns has no constructor-list column, and at worst no new column.
C8_NoConstructorColumn ==
    (Len(calls) > 0 /\ LastCall = "normalize_constructor_data")
    => CT \notin Range(df.columns)

ParseFault(t) ==
    \E i \in 1..Len(t.rows) : validate_constructor_data(t.rows[i].cells[CT]).exc # "none"

Selected(t) ==
    [i \in 1..Len(t.rows) |->
        select_constructor(validate_constructor_data(t.rows[i].cells[CT]).val)]

\* C9: when no parse or flattening fault occurs and some row's selected
\* mapping is non-empty, the Expander's output has the flattened fields of
\* the selected mappings as columns, whichever row holds the non-empty one;
\* when every selected mapping is empty it has the other columns only.
C9_ExpandsWhenAnyNonEmpty ==
    (/\ Len(calls) > 0
     /\ LastCall = "normalize_constructor_data"
     /\ CT \in Range(Prev.columns)
     /\ ~ParseFault(Prev)
     /\ ~has_duplicates(Index(Prev)))
    => IF \E i \in 1..Len(Prev.rows) : Selected(Prev)[i] # <<>>
       THEN /\ Range(df.columns)
                 = OtherColumns(Prev) \cup Range(json_normalize(Selected(Prev)).columns)
            /\ "points" \in Range(df.columns)
       ELSE Range(df.columns) = OtherColumns(Prev)

\* C10: Normalizer then Expander on a table with other columns, when no parse
\* fault occurs and every row the Normalizer keeps has a 'ferrari' entry: the output has exactly the rows the
\* Normalizer kept, in order, each with its own other columns and the fields
\* of its own 'ferrari' entry, and no field of another constructor.
C10_RowsAligned ==
    LET N == clean_dataframe(results).df
    IN (/\ Stages(calls) = <<"clean_dataframe", "normalize_constructor_data">>
        /\ CT \in Range(N.columns)
        /\ OtherColumns(N) # {}
        /\ ~ParseFault(N)
        /\ ~has_duplicates(Index(N))
        /\ \A i \in 1..Len(N.rows) : Selected(N)[i] # <<>>)
       => /\ Len(df.rows) = Len(N.rows)
          /\ "podiums" \notin Range(df.columns)
          /\ \A i \in 1..Len(N.rows) :
                /\ df.rows[i].idx = N.rows[i].idx
                /\ \A c \in OtherColumns(N) : df.rows[i].cells[c] = N.rows[i].cells[c]
                /\ LET fields == flatten(Selected(N)[i])
                   IN \A k \in 1..Len(fields) :
                        /\ fields[k].key \in Range(df.columns)
                        /\ df.rows[i].cells[fields[k].key] = fields[k].val

====
